---------------------------- MODULE Spec2Model ----------------------------
(***************************************************************************)
(* Bulk upload pipeline of the feedback categorisation client              *)
(* (src/Improve UI Design/src/components/BulkUpload.tsx, the revision with *)
(* CSV and Excel support, lines 501-880).                                  *)
(*                                                                         *)
(* JavaScript strings are TLA+ strings; a JavaScript object is a sequence  *)
(* of entries [k, v] in insertion order; a cell value is tagged with its   *)
(* JavaScript type, because the code behaves differently on strings,       *)
(* numbers and undefined.                                                  *)
(***************************************************************************)
EXTENDS Integers, Sequences, FiniteSets, TLC

VARIABLES
    file,          \* useState: the selected File, or NoFile
    processing,    \* useState: a bulk run is in progress
    progress,      \* useState: <<completed, total>> of the progress bar
    results,       \* useState: rows of the last published run, or Null
    previewData,   \* useState: first rows of the last file read, or Null
    columns,       \* useState: header list saved for the export
    stitchCount,   \* useState: fragments merged by the last run
    pendingReads,  \* handleFileUpload calls waiting for their file to be parsed
    runs,          \* every handleProcess invocation, with its closure and locals
    completed,     \* arguments of the onUploadComplete calls, in order
    alerts,        \* the messages shown with alert() so far
    exported,      \* the table written by the last download, or Null
    uploadsLeft,   \* file selections the model still allows
    runsLeft,      \* Start Prediction clicks the model still allows
    probe,         \* input and output of a pure function under test
    appCommentText, \* App useState commentText: the text of the comment box
    predictions,   \* App useState: the result of the last analysis, or null
    isAnalyzing,   \* App useState: a single-comment analysis is in progress
    apiOnline,     \* App useState: the last health answer said "healthy"
    modelLoaded,   \* App useState: the last healthy answer counted sub classes
    checking,      \* App useState: a health check is in progress
    bulkResults,   \* App useState: the rows of the last bulk run, for the dashboard
    checks         \* every checkApiHealth invocation, in the order started

vars == <<file, processing, progress, results, previewData, columns, stitchCount,
          pendingReads, runs, completed, alerts, exported, uploadsLeft, runsLeft,
          probe, appCommentText, predictions, isAnalyzing, apiOnline, modelLoaded,
          checking, bulkResults, checks>>

\* the state of App that the bulk upload component does not set
appVars == <<appCommentText, predictions, isAnalyzing, apiOnline, modelLoaded, checking,
             checks>>

-----------------------------------------------------------------------------
(* Bounds of the model *)

MaxRows == 3
MaxUploads == 2
MaxRuns == 2
MaxCols == 3
MaxSheets == 2
MaxTripRows == 2

-----------------------------------------------------------------------------
(* JavaScript strings *)

IsSpace(c) == c \in {" ", "\n", "\r", "\t"}

RECURSIVE TrimStart(_)
TrimStart(s) ==
    IF Len(s) > 0 /\ IsSpace(SubSeq(s, 1, 1))
    THEN TrimStart(SubSeq(s, 2, Len(s)))
    ELSE s

RECURSIVE TrimEnd(_)
TrimEnd(s) ==
    IF Len(s) > 0 /\ IsSpace(SubSeq(s, Len(s), Len(s)))
    THEN TrimEnd(SubSeq(s, 1, Len(s) - 1))
    ELSE s

\* String.prototype.trim
Trim(s) == TrimEnd(TrimStart(s))

UpperAlphabet == "ABCDEFGHIJKLMNOPQRSTUVWXYZ"
LowerAlphabet == "abcdefghijklmnopqrstuvwxyz"

LowerChar(c) ==
    IF \E i \in 1..26 : SubSeq(UpperAlphabet, i, i) = c
    THEN LET i == CHOOSE j \in 1..26 : SubSeq(UpperAlphabet, j, j) = c
         IN  SubSeq(LowerAlphabet, i, i)
    ELSE c

\* String.prototype.toLowerCase
RECURSIVE ToLowerCase(_)
ToLowerCase(s) ==
    IF Len(s) = 0 THEN s
    ELSE LowerChar(SubSeq(s, 1, 1)) \o ToLowerCase(SubSeq(s, 2, Len(s)))

\* String.prototype.includes
Includes(s, k) ==
    \E i \in 0..(Len(s) - Len(k)) : SubSeq(s, i + 1, i + Len(k)) = k

\* String.prototype.endsWith
EndsWith(s, suffix) ==
    /\ Len(s) >= Len(suffix)
    /\ SubSeq(s, Len(s) - Len(suffix) + 1, Len(s)) = suffix

\* Array.prototype.join over strings
RECURSIVE Join(_, _)
Join(strs, sep) ==
    IF Len(strs) = 0 THEN ""
    ELSE IF Len(strs) = 1 THEN strs[1]
    ELSE strs[1] \o sep \o Join(Tail(strs), sep)

-----------------------------------------------------------------------------
(* JavaScript values and objects *)

Str(s) == [t |-> "string", v |-> s]
Num(s) == [t |-> "number", v |-> s]      \* v is the number's decimal text
Undefined == [t |-> "undefined", v |-> ""]

\* ToBoolean
Truthy(c) ==
    CASE c.t = "string" -> c.v # ""
      [] c.t = "number" -> c.v # "0"
      [] OTHER -> FALSE

\* ToString, as done by string concatenation and join
ToStr(c) == IF c.t = "undefined" THEN "undefined" ELSE c.v

Entry(k, v) == [k |-> k, v |-> v]

ObjKeys(o) == [i \in 1..Len(o) |-> o[i].k]
ObjValues(o) == [i \in 1..Len(o) |-> o[i].v]
ObjHas(o, k) == \E i \in 1..Len(o) : o[i].k = k

\* o[k]
ObjGet(o, k) ==
    IF ObjHas(o, k)
    THEN o[CHOOSE i \in 1..Len(o) : o[i].k = k].v
    ELSE Undefined

\* o[k] = v, and {...o, k: v}: an existing key keeps its place
ObjSet(o, k, v) ==
    IF ObjHas(o, k)
    THEN [i \in 1..Len(o) |-> IF o[i].k = k THEN Entry(k, v) ELSE o[i]]
    ELSE Append(o, Entry(k, v))

\* useState<any[] | null>: null, or an array of rows
NullRows == [isNull |-> TRUE, rows |-> <<>>]
Rows(rs) == [isNull |-> FALSE, rows |-> rs]

-----------------------------------------------------------------------------
(* Files and the rows the loaders (parseCSV, parseExcel) produce from them *)

NoFile == [name |-> "", readable |-> FALSE, data |-> <<>>]

\* file.name.endsWith(".xlsx") || file.name.endsWith(".xls")
IsExcel(f) == EndsWith(f.name, ".xlsx") \/ EndsWith(f.name, ".xls")

\* one parsed row: the header names in file order, each with its cell
MkRow(headers, cells) == [i \in 1..Len(headers) |-> Entry(headers[i], cells[i])]

SeqsUpTo(S, n) == UNION {[1..k -> S] : k \in 1..n}

RunHeaders == <<"ID", "Comments", "Date">>

KeyCells == {Str(""), Str("1")}
TextCells == {Str(""), Str(" "), Str("late meal")}
OtherCells == {Str(""), Str("cold")}

\* parseCSV: every cell is a string; skipEmptyLines "greedy" leaves no row
\* whose cells are all empty or white space
CsvRows ==
    {MkRow(RunHeaders, <<k, t, o>>) : k \in KeyCells, t \in TextCells, o \in OtherCells}
      \ {MkRow(RunHeaders, <<k, t, o>>) : k \in {Str("")}, t \in {Str(""), Str(" ")},
                                         o \in {Str("")}}

\* parseExcel: sheet_to_json keeps the type of a cell (a numeric cell is a
\* number), fills a missing cell with "" (defval) and leaves out blank rows
XlsxRows ==
    {MkRow(RunHeaders, <<k, t, o>>) :
        k \in KeyCells, t \in TextCells \cup {Num("42")}, o \in OtherCells}
      \ {MkRow(RunHeaders, <<Str(""), Str(""), Str("")>>)}

\* every file of at most MaxRows rows over RunHeaders
AllFiles ==
    {[name |-> "a.csv", readable |-> TRUE, data |-> d] : d \in SeqsUpTo(CsvRows, MaxRows)}
      \cup
    {[name |-> "b.xlsx", readable |-> TRUE, data |-> d] : d \in SeqsUpTo(XlsxRows, MaxRows)}

\* the files a user picks from when selections and runs interleave
Files ==
    { [name |-> "a.csv", readable |-> TRUE, data |->
          << MkRow(RunHeaders, <<Str("1"), Str("late meal"), Str("")>>),
             MkRow(RunHeaders, <<Str(""), Str(""), Str("cold")>>) >>],
      [name |-> "b.xlsx", readable |-> TRUE, data |->
          << MkRow(RunHeaders, <<Str("1"), Str(" "), Str("")>>),
             MkRow(RunHeaders, <<Str("2"), Str("late meal"), Str("")>>) >>],
      [name |-> "bad.xls", readable |-> FALSE, data |-> <<>>],
      [name |-> "empty.csv", readable |-> TRUE, data |-> <<>>],
      [name |-> "notes.csv", readable |-> TRUE, data |->
          << MkRow(<<"ID", "Notes">>, <<Str("1"), Str("late meal")>>) >>],
      [name |-> "categorized_feedback.csv", readable |-> TRUE, data |->
          << MkRow(<<"ID", "Comments", "Predicted_Subcategory", "Subcategory_Confidence">>,
                   <<Str("1"), Str("late meal"), Str("Galley"), Str("94.50%")>>) >>] }

-----------------------------------------------------------------------------
(* The pipeline of handleProcess, as operators *)

COLUMN_KEYWORDS ==
    << "text", "comment", "comments", "feedback", "review",
       "pilot's questions/answers", "pilots questions/answers",
       "pilot's questions", "questions/answers" >>

\* the predicate handed to originalHeaders.find
HeaderMatches(h) ==
    LET headerLower == Trim(ToLowerCase(h))
    IN  \E n \in 1..Len(COLUMN_KEYWORDS) : Includes(headerLower, COLUMN_KEYWORDS[n])

\* a search that keeps the last element that passes
RECURSIVE FindLastFrom(_, _)
FindLastFrom(headers, i) ==
    IF i > Len(headers) THEN Undefined
    ELSE LET later == FindLastFrom(headers, i + 1)
         IN  IF later # Undefined THEN later
             ELSE IF HeaderMatches(headers[i]) THEN Str(headers[i])
             ELSE Undefined

\* Array.prototype.find from position i on: the first element that passes, or
\* undefined
RECURSIVE FindFrom(_, _)
FindFrom(headers, i) ==
    IF i > Len(headers) THEN Undefined
    ELSE IF HeaderMatches(headers[i]) THEN Str(headers[i])
    ELSE FindFrom(headers, i + 1)

FindTextCol(originalHeaders) == FindFrom(originalHeaders, 1)

\* a stitching loop that joins a fragment to its record with a space
StitchRowNoNewline(st, row, keyCol1, textCol, excel) ==
    LET firstVal == ObjGet(row, keyCol1)
    IN  IF firstVal # Undefined /\ firstVal # Str("")
        THEN [clean |-> Append(st.clean, row),
              last |-> Len(st.clean) + 1,
              stitched |-> st.stitched]
        ELSE IF st.last # 0 /\ ~excel
        THEN LET truthy == SelectSeq(ObjValues(row), Truthy)
                 fragment == Join([n \in 1..Len(truthy) |-> ToStr(truthy[n])], " ")
                 owner == st.clean[st.last]
             IN  IF fragment # ""
                 THEN [st EXCEPT
                         !.clean[st.last] =
                             ObjSet(owner, textCol,
                                    Str(ToStr(ObjGet(owner, textCol)) \o " " \o fragment)),
                         !.stitched = @ + 1]
                 ELSE st
        ELSE IF Truthy(ObjGet(row, textCol))
        THEN [st EXCEPT !.clean = Append(@, row)]
        ELSE st

\* a stitching loop that counts a fragment and leaves the text of its record
\* as it was
StitchRowCountsOnly(st, row, keyCol1, textCol, excel) ==
    LET firstVal == ObjGet(row, keyCol1)
    IN  IF firstVal # Undefined /\ firstVal # Str("")
        THEN [clean |-> Append(st.clean, row),
              last |-> Len(st.clean) + 1,
              stitched |-> st.stitched]
        ELSE IF st.last # 0 /\ ~excel
        THEN LET truthy == SelectSeq(ObjValues(row), Truthy)
                 fragment == Join([n \in 1..Len(truthy) |-> ToStr(truthy[n])], " ")
             IN  IF fragment # ""
                 THEN [st EXCEPT !.stitched = @ + 1]
                 ELSE st
        ELSE IF Truthy(ObjGet(row, textCol))
        THEN [st EXCEPT !.clean = Append(@, row)]
        ELSE st

\* a stitching loop that keeps a record only when it has text
StitchRowNeedsText(st, row, keyCol1, textCol, excel) ==
    LET firstVal == ObjGet(row, keyCol1)
    IN  IF firstVal # Undefined /\ firstVal # Str("") /\ Truthy(ObjGet(row, textCol))
        THEN [clean |-> Append(st.clean, row),
              last |-> Len(st.clean) + 1,
              stitched |-> st.stitched]
        ELSE st

\* one iteration of the stitching loop; st.last is the place of lastValidRow
\* in cleanData (0: null), the same object being in both
StitchRow(st, row, keyCol1, textCol, excel) ==
    LET firstVal == ObjGet(row, keyCol1)
    IN  IF firstVal # Undefined /\ firstVal # Str("")
        THEN [clean |-> Append(st.clean, row),
              last |-> Len(st.clean) + 1,
              stitched |-> st.stitched]
        ELSE IF st.last # 0 /\ ~excel
        THEN LET truthy == SelectSeq(ObjValues(row), Truthy)
                 fragment == Join([n \in 1..Len(truthy) |-> ToStr(truthy[n])], " ")
                 owner == st.clean[st.last]
             IN  IF fragment # ""
                 THEN [st EXCEPT
                         !.clean[st.last] =
                             ObjSet(owner, textCol,
                                    Str(ToStr(ObjGet(owner, textCol)) \o "\n" \o fragment)),
                         !.stitched = @ + 1]
                 ELSE st
        ELSE IF Truthy(ObjGet(row, textCol))
        THEN [st EXCEPT !.clean = Append(@, row)]
        ELSE st

RECURSIVE StitchFrom(_, _, _, _, _, _)
StitchFrom(st, rawData, n, keyCol1, textCol, excel) ==
    IF n > Len(rawData) THEN st
    ELSE StitchFrom(StitchRow(st, rawData[n], keyCol1, textCol, excel),
                    rawData, n + 1, keyCol1, textCol, excel)

\* step 3 of handleProcess: cleanData and the number of fragments merged
Stitch(rawData, originalHeaders, textCol, excel) ==
    LET st == StitchFrom([clean |-> <<>>, last |-> 0, stitched |-> 0],
                         rawData, 1, originalHeaders[1], textCol, excel)
    IN  [cleanData |-> st.clean, stitched |-> st.stitched]

\* step 4 of handleProcess: the header list saved for the export
FinalHeaders(originalHeaders) ==
    originalHeaders \o <<"Predicted_Subcategory", "Subcategory_Confidence">>

Digit(d) == SubSeq("0123456789", d + 1, d + 1)

RECURSIVE NatToStr(_)
NatToStr(n) == IF n < 10 THEN Digit(n) ELSE NatToStr(n \div 10) \o Digit(n % 10)

\* Number.prototype.toFixed(2) of a probability given in thousandths
ToFixed2(p) ==
    LET h == (p + 5) \div 10
    IN  NatToStr(h \div 100) \o "." \o Digit((h \div 10) % 10) \o Digit(h % 10)

\* what onPredict can answer: a list of predictions, best first (probability in
\* thousandths of a percent), or a rejection
Resolved(ps) == [ok |-> TRUE, subPredictions |-> ps]
Rejected == [ok |-> FALSE, subPredictions |-> <<>>]

Responses ==
    { Resolved(<< [label |-> "Galley", probability |-> 94500],
                  [label |-> "Seat", probability |-> 5500] >>),
      Resolved(<< [label |-> "Seat", probability |-> 0] >>),
      Resolved(<< >>),
      Rejected }

\* a loop that treats an answer without prediction as a failed record
OnResolveEmptyFails(row, subPredictions) ==
    IF Len(subPredictions) = 0
    THEN ObjSet(ObjSet(row, "Predicted_Subcategory", Str("Error")),
                "Subcategory_Confidence", Str("0%"))
    ELSE ObjSet(ObjSet(row, "Predicted_Subcategory", Str(subPredictions[1].label)),
                "Subcategory_Confidence",
                Str(ToFixed2(subPredictions[1].probability) \o "%"))

\* the row pushed when onPredict resolves
OnResolve(row, subPredictions) ==
    LET label == IF Len(subPredictions) > 0 /\ subPredictions[1].label # ""
                 THEN subPredictions[1].label
                 ELSE "Unknown"
        confidence == IF Len(subPredictions) > 0 /\ subPredictions[1].probability # 0
                      THEN ToFixed2(subPredictions[1].probability) \o "%"
                      ELSE "0%"
    IN  ObjSet(ObjSet(row, "Predicted_Subcategory", Str(label)),
               "Subcategory_Confidence", Str(confidence))

\* a catch block that pushes the row without the failure markers
OnRejectUnmarked(row) == row

\* the row pushed by the catch block of one record
OnReject(row) ==
    ObjSet(ObjSet(row, "Predicted_Subcategory", Str("Error")),
           "Subcategory_Confidence", Str("0%"))

\* the row pushed for a record without text
OnSkip(row) == row

\* the loop without the trim of the text: white space counts as text
RECURSIVE LoopNoTrim(_, _, _, _)
LoopNoTrim(cleanData, textCol, i, acc) ==
    IF i > Len(cleanData)
    THEN [kind |-> "finish", i |-> i, acc |-> acc, text |-> ""]
    ELSE LET cell == ObjGet(cleanData[i], textCol)
         IN  IF cell.t = "number"
             THEN [kind |-> "throw", i |-> i, acc |-> acc, text |-> ""]
             ELSE LET commentText == IF cell.t = "undefined" THEN "" ELSE cell.v
                  IN  IF commentText = ""
                      THEN LoopNoTrim(cleanData, textCol, i + 1,
                                      Append(acc, OnSkip(cleanData[i])))
                      ELSE [kind |-> "call", i |-> i, acc |-> acc, text |-> commentText]

\* the loop of the CSV-only revision: a record without text is not pushed
RECURSIVE LoopDropsSkipped(_, _, _, _)
LoopDropsSkipped(cleanData, textCol, i, acc) ==
    IF i > Len(cleanData)
    THEN [kind |-> "finish", i |-> i, acc |-> acc, text |-> ""]
    ELSE LET cell == ObjGet(cleanData[i], textCol)
         IN  IF cell.t = "number"
             THEN [kind |-> "throw", i |-> i, acc |-> acc, text |-> ""]
             ELSE LET commentText == IF cell.t = "undefined" THEN "" ELSE Trim(cell.v)
                  IN  IF commentText = ""
                      THEN LoopDropsSkipped(cleanData, textCol, i + 1, acc)
                      ELSE [kind |-> "call", i |-> i, acc |-> acc, text |-> commentText]

\* the for loop from record i on, up to its next await or its end: records
\* without text are passed through; a cell that is not a string has no trim
\* method, and the call throws outside the per-record try
RECURSIVE Loop(_, _, _, _)
Loop(cleanData, textCol, i, acc) ==
    IF i > Len(cleanData)
    THEN [kind |-> "finish", i |-> i, acc |-> acc, text |-> ""]
    ELSE LET cell == ObjGet(cleanData[i], textCol)
         IN  IF cell.t = "number"
             THEN [kind |-> "throw", i |-> i, acc |-> acc, text |-> ""]
             ELSE LET commentText == IF cell.t = "undefined" THEN "" ELSE Trim(cell.v)
                  IN  IF commentText = ""
                      THEN Loop(cleanData, textCol, i + 1,
                                Append(acc, OnSkip(cleanData[i])))
                      ELSE [kind |-> "call", i |-> i, acc |-> acc, text |-> commentText]

\* the quote character doubled wherever it occurs
RECURSIVE EscapeQuotes(_)
EscapeQuotes(str) ==
    IF Len(str) = 0 THEN str
    ELSE (IF SubSeq(str, 1, 1) = "\"" THEN "\"\"" ELSE SubSeq(str, 1, 1))
           \o EscapeQuotes(SubSeq(str, 2, Len(str)))

\* safe() of Papa.unparse with quotes: true: undefined gives nothing, every
\* other value its text between quotes
Safe(cell) ==
    IF cell.t = "undefined" THEN "" ELSE "\"" \o EscapeQuotes(cell.v) \o "\""

\* the text Papa.unparse({fields, data}, {quotes: true}) returns: the header
\* line and one line per row, comma-separated, lines ended by \r\n
UnparseCsv(fields, data) ==
    Join(<<Join([c \in 1..Len(fields) |-> Safe(Str(fields[c]))], ",")>>
           \o [r \in 1..Len(data) |->
                 Join([c \in 1..Len(fields) |-> Safe(ObjGet(data[r], fields[c]))], ",")],
         "\r\n")

\* an export without the saved header list: every row writes its own values
UnparseOwnKeys(fields, data) ==
    [isNull |-> FALSE,
     fields |-> fields,
     rows |-> [r \in 1..Len(data) |-> [c \in 1..Len(data[r]) |-> data[r][c].v.v]]]

\* Papa.unparse({fields, data}): one cell per field for every row, empty when
\* the row has no such key
Unparse(fields, data) ==
    [isNull |-> FALSE,
     fields |-> fields,
     rows |-> [r \in 1..Len(data) |->
                 [c \in 1..Len(fields) |->
                     LET cell == ObjGet(data[r], fields[c])
                     IN  IF cell.t = "undefined" THEN "" ELSE cell.v]]]

\* the number of quote characters of text between positions from and to
QuotesIn(text, from, to) ==
    Cardinality({i \in from..to : SubSeq(text, i, i) = "\""})

\* the parser of Papa.parse looks for the next separator that is outside
\* quotes: the first place at or after from where sep stands with every quote
\* opened since from closed again; Len(text) + 1 when there is none
NextOutsideQuotes(text, sep, from) ==
    LET places == {p \in from..(Len(text) - Len(sep) + 1) :
                      /\ SubSeq(text, p, p + Len(sep) - 1) = sep
                      /\ QuotesIn(text, from, p - 1) % 2 = 0}
    IN  IF places = {} THEN Len(text) + 1
        ELSE CHOOSE p \in places : \A q \in places : p <= q

\* text cut at every sep that is outside quotes, from position from on
RECURSIVE SplitFrom(_, _, _)
SplitFrom(text, sep, from) ==
    LET p == NextOutsideQuotes(text, sep, from)
    IN  IF p > Len(text) THEN <<SubSeq(text, from, Len(text))>>
        ELSE <<SubSeq(text, from, p - 1)>> \o SplitFrom(text, sep, p + Len(sep))

\* a doubled quote read as one quote
RECURSIVE UnescapeQuotes(_)
UnescapeQuotes(str) ==
    IF Len(str) = 0 THEN str
    ELSE IF Len(str) >= 2 /\ SubSeq(str, 1, 2) = "\"\""
    THEN "\"" \o UnescapeQuotes(SubSeq(str, 3, Len(str)))
    ELSE SubSeq(str, 1, 1) \o UnescapeQuotes(SubSeq(str, 2, Len(str)))

\* the value of a field: what is between its quotes when it is quoted
FieldValue(str) ==
    IF Len(str) >= 2 /\ SubSeq(str, 1, 1) = "\"" /\ SubSeq(str, Len(str), Len(str)) = "\""
    THEN UnescapeQuotes(SubSeq(str, 2, Len(str) - 1))
    ELSE str

\* the rows of fields of a text with comma as delimiter and \r\n as line end
ParseFields(text) ==
    LET lines == SplitFrom(text, "\r\n", 1)
    IN  [n \in 1..Len(lines) |->
            LET fields == SplitFrom(lines[n], ",", 1)
            IN  [c \in 1..Len(fields) |-> FieldValue(fields[c])]]

\* Papa.parse(file, {header: true, skipEmptyLines: "greedy"}): lines whose
\* fields are all empty or white space are left out, the first line left gives
\* the keys, every cell is a string
ParseCsv(text) ==
    LET lines == SelectSeq(ParseFields(text),
                           LAMBDA fields : Trim(Join(fields, "")) # "")
    IN  IF Len(lines) = 0 THEN <<>>
        ELSE [n \in 1..(Len(lines) - 1) |->
                 MkRow(lines[1], [c \in 1..Len(lines[1]) |-> Str(lines[n + 1][c])])]

NoExport == [isNull |-> TRUE, fields |-> <<>>, rows |-> <<>>]

-----------------------------------------------------------------------------
(* parseExcel.  A worksheet is its used range: first is the 0-based index of  *)
(* the sheet row the range starts at (2 when the first two sheet rows are     *)
(* blank), rows the rows of the range, a missing cell being Undefined.        *)

\* rawData.slice(0, 20)
ScanRows == 20

\* the predicate handed to row.some: a string cell that contains a keyword
CellMatches(cell) ==
    /\ cell.t = "string"
    /\ \E n \in 1..Len(COLUMN_KEYWORDS) :
           Includes(Trim(ToLowerCase(cell.v)), COLUMN_KEYWORDS[n])

\* XLSX.utils.sheet_to_json(sheet, {header: 1}): the rows of the range as arrays
SheetToArrays(sheet) == sheet.rows

\* findIndex over the first ScanRows rows from position i on; 0-based, -1: none
RECURSIVE FindIndexFrom(_, _)
FindIndexFrom(rawData, i) ==
    IF i > Len(rawData) \/ i > ScanRows THEN -1
    ELSE IF \E c \in 1..Len(rawData[i]) : CellMatches(rawData[i][c]) THEN i - 1
    ELSE FindIndexFrom(rawData, i + 1)

\* the cells of sheet row a (0-based index in the sheet, not in the range)
RowAt(sheet, a) ==
    IF a >= sheet.first /\ a < sheet.first + Len(sheet.rows)
    THEN sheet.rows[a - sheet.first + 1]
    ELSE [c \in 1..Len(sheet.rows[1]) |-> Undefined]

\* the column names sheet_to_json makes of a header row: the text of the cell,
\* __EMPTY for a missing cell, a repeated name numbered _1, _2, ...
HeaderNamesOf(row) ==
    LET base == [c \in 1..Len(row) |-> IF row[c].t = "undefined" THEN "__EMPTY" ELSE row[c].v]
        seen(c) == Cardinality({d \in 1..(c - 1) : base[d] = base[c]})
    IN  [c \in 1..Len(row) |->
            IF seen(c) = 0 THEN base[c] ELSE base[c] \o "_" \o NatToStr(seen(c))]

\* XLSX.utils.sheet_to_json(sheet, {defval: "", range: start}): the range of
\* the sheet with its starting row set to sheet row start; that row gives the
\* column names, every later row that has a cell gives a record
SheetToJson(sheet, start) ==
    LET hdr == HeaderNamesOf(RowAt(sheet, start))
        last == sheet.first + Len(sheet.rows) - 1
        later == [n \in 1..(IF last > start THEN last - start ELSE 0) |-> RowAt(sheet, start + n)]
        filled == SelectSeq(later, LAMBDA row : \E c \in 1..Len(row) : row[c].t # "undefined")
    IN  [headers |-> hdr,
         data |-> [n \in 1..Len(filled) |->
                     MkRow(hdr, [c \in 1..Len(hdr) |->
                                    IF filled[n][c].t = "undefined" THEN Str("")
                                    ELSE filled[n][c]])]]

\* the loop over workbook.SheetNames from sheet s on: the first sheet with a
\* header row is parsed again from the index found; s = 0 tells the fallback
RECURSIVE ParseExcelFrom(_, _)
ParseExcelFrom(workbook, s) ==
    IF s > Len(workbook)
    THEN [sheet |-> 0, rowIndex |-> -1] @@ SheetToJson(workbook[1], workbook[1].first)
    ELSE LET rowIndex == FindIndexFrom(SheetToArrays(workbook[s]), 1)
         IN  IF rowIndex # -1
             THEN [sheet |-> s, rowIndex |-> rowIndex] @@ SheetToJson(workbook[s], rowIndex)
             ELSE ParseExcelFrom(workbook, s + 1)

ParseExcel(workbook) == ParseExcelFrom(workbook, 1)

-----------------------------------------------------------------------------
(* The component as a state machine.  A handler runs without interruption  *)
(* up to its next await; an action is one such stretch.                    *)

\* a handleProcess invocation: the file of its closure, its position and locals,
\* and what it did (calls, responses, how it ended)
NewRun(f) ==
    [file |-> f, pc |-> "parse", end |-> "",
     rawData |-> <<>>, originalHeaders |-> <<>>, textCol |-> "",
     cleanData |-> <<>>, stitched |-> 0,
     i |-> 0, processedResults |-> <<>>,
     calls |-> <<>>, responses |-> <<>>]

\* the preview and everything under it is rendered when previewData is truthy
\* (an empty array is); its table header reads previewData[0], so rendering an
\* empty preview throws and the component is gone
Mounted == previewData.isNull \/ Len(previewData.rows) > 0

\* a Start Prediction button that is not disabled while processing
StartEnabledWhileProcessing == ~previewData.isNull

\* the Start Prediction button is shown with the preview, disabled while processing
StartEnabled == ~previewData.isNull /\ ~processing

\* data.slice(0, 5)
Slice5(data) == SubSeq(data, 1, IF Len(data) < 5 THEN Len(data) ELSE 5)

\* a file selection that leaves the stitch count of the last run in place
SelectFileKeepsCount(f) ==
    /\ Mounted
    /\ uploadsLeft > 0
    /\ uploadsLeft' = uploadsLeft - 1
    /\ file' = f
    /\ results' = NullRows
    /\ progress' = <<0, 1>>
    /\ pendingReads' = Append(pendingReads, f)
    /\ UNCHANGED <<processing, previewData, columns, stitchCount, runs, completed,
                   alerts, exported, runsLeft, probe, appVars,
                   bulkResults>>

\* handleFileUpload up to its await
SelectFile(f) ==
    /\ Mounted
    /\ uploadsLeft > 0
    /\ uploadsLeft' = uploadsLeft - 1
    /\ file' = f
    /\ results' = NullRows
    /\ progress' = <<0, 1>>
    /\ stitchCount' = 0
    /\ pendingReads' = Append(pendingReads, f)
    /\ UNCHANGED <<processing, previewData, columns, runs, completed, alerts,
                   exported, runsLeft, probe, appVars,
                   bulkResults>>

\* handleFileUpload after its await: the n-th pending read has settled
ReadDone(n) ==
    /\ n \in 1..Len(pendingReads)
    /\ pendingReads' = SubSeq(pendingReads, 1, n - 1)
                          \o SubSeq(pendingReads, n + 1, Len(pendingReads))
    /\ IF pendingReads[n].readable
       THEN /\ previewData' = Rows(Slice5(pendingReads[n].data))
            /\ UNCHANGED alerts
       ELSE /\ alerts' = alerts \cup {"Failed to read file. Please ensure it is a valid CSV or Excel file."}
            /\ UNCHANGED previewData
    /\ UNCHANGED <<file, processing, progress, results, columns, stitchCount, runs,
                   completed, exported, uploadsLeft, runsLeft, probe, appVars,
                   bulkResults>>

\* handleProcess up to its first await
StartPrediction ==
    /\ Mounted
    /\ StartEnabled
    /\ runsLeft > 0
    /\ runsLeft' = runsLeft - 1
    /\ IF file = NoFile
       THEN UNCHANGED <<processing, progress, stitchCount, runs>>
       ELSE /\ processing' = TRUE
            /\ progress' = <<0, 1>>
            /\ stitchCount' = 0
            /\ runs' = Append(runs, NewRun(file))
    /\ UNCHANGED <<file, results, previewData, columns, pendingReads, completed,
                   alerts, exported, uploadsLeft, probe, appVars,
                   bulkResults>>

\* an end of run that hands its rows to onUploadComplete twice
ProceedCompletesTwice(k, r, lp) ==
    CASE lp.kind = "call" ->
           /\ runs' = [runs EXCEPT ![k] =
                         [r EXCEPT !.pc = "predict", !.i = lp.i,
                                   !.processedResults = lp.acc,
                                   !.calls = Append(@, [i |-> lp.i, text |-> lp.text])]]
           /\ UNCHANGED <<results, completed, processing, alerts, bulkResults>>
      [] lp.kind = "finish" ->
           /\ runs' = [runs EXCEPT ![k] =
                         [r EXCEPT !.pc = "done", !.end = "published", !.i = lp.i,
                                   !.processedResults = lp.acc]]
           /\ results' = Rows(lp.acc)
           /\ completed' = Append(Append(completed, lp.acc), lp.acc)
           /\ bulkResults' = lp.acc
           /\ alerts' = alerts \cup {"Bulk upload complete! Check the 'Analytics' tab for charts."}
           /\ processing' = FALSE
      [] lp.kind = "throw" ->
           /\ runs' = [runs EXCEPT ![k] =
                         [r EXCEPT !.pc = "done", !.end = "aborted", !.i = lp.i,
                                   !.processedResults = lp.acc]]
           /\ alerts' = alerts \cup {"An error occurred during processing."}
           /\ processing' = FALSE
           /\ UNCHANGED <<results, completed, bulkResults>>

\* run k goes on with record lp.i, or ends: publishes its rows, or is stopped by
\* the outer catch; the finally block clears processing
Proceed(k, r, lp) ==
    CASE lp.kind = "call" ->
           /\ runs' = [runs EXCEPT ![k] =
                         [r EXCEPT !.pc = "predict", !.i = lp.i,
                                   !.processedResults = lp.acc,
                                   !.calls = Append(@, [i |-> lp.i, text |-> lp.text])]]
           /\ UNCHANGED <<results, completed, processing, alerts, bulkResults>>
      [] lp.kind = "finish" ->
           /\ runs' = [runs EXCEPT ![k] =
                         [r EXCEPT !.pc = "done", !.end = "published", !.i = lp.i,
                                   !.processedResults = lp.acc]]
           /\ results' = Rows(lp.acc)
           /\ completed' = Append(completed, lp.acc)
           /\ bulkResults' = lp.acc
           /\ alerts' = alerts \cup {"Bulk upload complete! Check the 'Analytics' tab for charts."}
           /\ processing' = FALSE
      [] lp.kind = "throw" ->
           /\ runs' = [runs EXCEPT ![k] =
                         [r EXCEPT !.pc = "done", !.end = "aborted", !.i = lp.i,
                                   !.processedResults = lp.acc]]
           /\ alerts' = alerts \cup {"An error occurred during processing."}
           /\ processing' = FALSE
           /\ UNCHANGED <<results, completed, bulkResults>>

\* an early exit that forgets its return and goes on to publish what it has
HaltFallsThrough(k, how, message) ==
    /\ runs' = [runs EXCEPT ![k] = [@ EXCEPT !.pc = "done", !.end = how]]
    /\ alerts' = alerts \cup {message}
    /\ processing' = FALSE
    /\ results' = Rows(<<>>)
    /\ completed' = Append(completed, <<>>)
    /\ bulkResults' = <<>>
    /\ UNCHANGED <<columns, stitchCount>>

\* an early exit that returns without clearing processing
HaltKeepsProcessing(k, how, message) ==
    /\ runs' = [runs EXCEPT ![k] = [@ EXCEPT !.pc = "done", !.end = how]]
    /\ alerts' = alerts \cup {message}
    /\ UNCHANGED <<processing, results, completed, columns, stitchCount, bulkResults>>

\* run k stops before its loop, with an alert
Halt(k, how, message) ==
    /\ runs' = [runs EXCEPT ![k] = [@ EXCEPT !.pc = "done", !.end = how]]
    /\ alerts' = alerts \cup {message}
    /\ processing' = FALSE
    /\ UNCHANGED <<results, completed, columns, stitchCount, bulkResults>>

\* handleProcess from the parsed file to the first onPredict call (or the end)
ParseDone(k) ==
    /\ k \in 1..Len(runs)
    /\ runs[k].pc = "parse"
    /\ LET f == runs[k].file
           rawData == f.data
           originalHeaders == ObjKeys(rawData[1])
           textCol == FindTextCol(originalHeaders)
           st == Stitch(rawData, originalHeaders, textCol.v, IsExcel(f))
           r == [runs[k] EXCEPT !.rawData = rawData,
                                !.originalHeaders = originalHeaders,
                                !.textCol = textCol.v,
                                !.cleanData = st.cleanData,
                                !.stitched = st.stitched]
       IN  IF ~f.readable
           THEN Halt(k, "unreadable", "An error occurred during processing.")
           ELSE IF Len(rawData) = 0
           THEN Halt(k, "empty", "File appears to be empty.")
           ELSE IF ~Truthy(textCol)
           THEN Halt(k, "nocolumn",
                     "Could not find a valid text column (e.g., 'Comments' or 'Pilot's Questions/Answers').")
           ELSE /\ stitchCount' = st.stitched
                /\ columns' = FinalHeaders(originalHeaders)
                /\ Proceed(k, r, Loop(st.cleanData, textCol.v, 1, <<>>))
    /\ UNCHANGED <<file, progress, previewData, pendingReads, exported, uploadsLeft,
                   runsLeft, probe, appVars>>

\* a loop that asks again, once, for a record whose call rejected
PredictSettleRetry(k, resp) ==
    /\ k \in 1..Len(runs)
    /\ runs[k].pc = "predict"
    /\ LET r0 == runs[k]
           row == r0.cleanData[r0.i]
           newRow == IF resp.ok THEN OnResolve(row, resp.subPredictions)
                                ELSE OnReject(row)
           r == [r0 EXCEPT !.processedResults = Append(@, newRow),
                           !.responses = Append(@, resp)]
           asked == Cardinality({n \in 1..Len(r0.calls) : r0.calls[n].i = r0.i})
       IN  IF ~resp.ok /\ asked = 1
           THEN /\ runs' = [runs EXCEPT ![k] =
                              [r0 EXCEPT !.responses = Append(@, resp),
                                         !.calls = Append(@, r0.calls[Len(r0.calls)])]]
                /\ UNCHANGED <<progress, results, completed, processing, alerts,
                               bulkResults>>
           ELSE /\ progress' = <<r0.i, Len(r0.cleanData)>>
                /\ IF (r0.i - 1) % 5 = 0
                   THEN /\ runs' = [runs EXCEPT ![k] = [r EXCEPT !.pc = "timer"]]
                        /\ UNCHANGED <<results, completed, processing, alerts,
                                       bulkResults>>
                   ELSE Proceed(k, r, Loop(r.cleanData, r.textCol, r.i + 1,
                                           r.processedResults))
    /\ UNCHANGED <<file, previewData, columns, stitchCount, pendingReads, exported,
                   uploadsLeft, runsLeft, probe, appVars>>

\* the awaited onPredict call of run k settles: the row is pushed, the progress
\* set, and the loop goes on (after a timer when i % 5 === 0)
PredictSettle(k, resp) ==
    /\ k \in 1..Len(runs)
    /\ runs[k].pc = "predict"
    /\ LET r0 == runs[k]
           row == r0.cleanData[r0.i]
           newRow == IF resp.ok THEN OnResolve(row, resp.subPredictions)
                                ELSE OnReject(row)
           r == [r0 EXCEPT !.processedResults = Append(@, newRow),
                           !.responses = Append(@, resp)]
       IN  /\ progress' = <<r0.i, Len(r0.cleanData)>>
           /\ IF (r0.i - 1) % 5 = 0
              THEN /\ runs' = [runs EXCEPT ![k] = [r EXCEPT !.pc = "timer"]]
                   /\ UNCHANGED <<results, completed, processing, alerts, bulkResults>>
              ELSE Proceed(k, r, Loop(r.cleanData, r.textCol, r.i + 1,
                                      r.processedResults))
    /\ UNCHANGED <<file, previewData, columns, stitchCount, pendingReads, exported,
                   uploadsLeft, runsLeft, probe, appVars>>

\* the 10 ms timer of run k fires
TimerFire(k) ==
    /\ k \in 1..Len(runs)
    /\ runs[k].pc = "timer"
    /\ LET r == runs[k]
       IN  Proceed(k, r, Loop(r.cleanData, r.textCol, r.i + 1, r.processedResults))
    /\ UNCHANGED <<file, progress, previewData, columns, stitchCount, pendingReads,
                   exported, uploadsLeft, runsLeft, probe, appVars>>

\* handleDownload; its button is shown when results is truthy
Download ==
    /\ Mounted
    /\ ~results.isNull
    /\ Len(results.rows) > 0
    /\ exported' = Unparse(columns, results.rows)
    /\ UNCHANGED <<file, processing, progress, results, previewData, columns,
                   stitchCount, pendingReads, runs, completed, alerts, uploadsLeft,
                   runsLeft, probe, appVars,
                   bulkResults>>

\* the text of the success alert, rendered when results is truthy
SuccessText ==
    IF results.isNull THEN ""
    ELSE "Success! " \o NatToStr(Len(results.rows)) \o " rows categorized."
           \o (IF stitchCount > 0
               THEN " (Repaired " \o NatToStr(stitchCount)
                      \o " broken text rows automatically)"
               ELSE "")

NoProbe == [headers |-> <<>>, textCol |-> Undefined, applied |-> FALSE]

\* header names a file may have
HeaderNames ==
    {"ID", "Comments", "Date", "Feedback", "Review", " TEXT ", "Context", "Notes",
     "Pilot's Questions/Answers"}

\* the header lists of at most MaxCols distinct names
HeaderLists ==
    {h \in UNION {[1..n -> HeaderNames] : n \in 1..MaxCols} :
        \A a, b \in 1..Len(h) : a # b => h[a] # h[b]}

\* step 2 of handleProcess applied to the header list under test
ApplyFind ==
    /\ ~probe.applied
    /\ probe' = [probe EXCEPT !.textCol = FindTextCol(probe.headers), !.applied = TRUE]
    /\ UNCHANGED <<file, processing, progress, results, previewData, columns,
                   stitchCount, pendingReads, runs, completed, alerts, exported,
                   uploadsLeft, runsLeft, appVars,
                   bulkResults>>

\* rows a worksheet may have above its table: a title, then a missing cell
TitleRow == <<Str("Report"), Undefined>>

\* a header row and what is under it: a table with a text column, the same
\* with a blank row in it, and a table without text column
SheetBodies ==
    { << <<Str("ID"), Str("Comments")>>, <<Num("1"), Str("late meal")>> >>,
      << <<Str("ID"), Str("Feedback")>>, <<Undefined, Undefined>>, <<Num("2"), Undefined>> >>,
      << <<Str("ID"), Str("Notes")>>, <<Num("1"), Str("ok")>> >> }

\* worksheets: the used range starts at the first or at the third sheet row,
\* and has no, one, ScanRows - 1 or ScanRows title rows above the header row
Sheets ==
    {[first |-> f, rows |-> [n \in 1..lead |-> TitleRow] \o body] :
        f \in {0, 2}, lead \in {0, 1, ScanRows - 1, ScanRows}, body \in SheetBodies}

\* workbook.SheetNames / workbook.Sheets, in workbook order
Workbooks == SeqsUpTo(Sheets, MaxSheets)

\* parseExcel applied to the workbook under test
ApplyParseExcel ==
    /\ ~probe.applied
    /\ probe' = [probe EXCEPT !.parsed = ParseExcel(probe.workbook), !.applied = TRUE]
    /\ UNCHANGED <<file, processing, progress, results, previewData, columns,
                   stitchCount, pendingReads, runs, completed, alerts, exported,
                   uploadsLeft, runsLeft, appVars,
                   bulkResults>>

\* cells with the characters a delimited text has to quote
QuotedText == "said \"no\", left\nearly"

\* the rows of the files whose export is read back: delimited text rows, and
\* spreadsheet rows with a numeric key and a cell that is only a blank
TripCsvRows ==
    {MkRow(RunHeaders, <<k, t, o>>) :
        k \in KeyCells, t \in {Str(""), Str("late meal"), Str(QuotedText)}, o \in OtherCells}
      \ {MkRow(RunHeaders, <<Str(""), Str(""), Str("")>>)}

TripXlsxRows ==
    {MkRow(RunHeaders, <<k, t, o>>) :
        k \in {Str(""), Num("7")},
        t \in {Str(""), Str(" "), Str("late meal"), Str(QuotedText)},
        o \in OtherCells}
      \ {MkRow(RunHeaders, <<Str(""), Str(""), Str("")>>)}

TripFiles ==
    {[name |-> "a.csv", readable |-> TRUE, data |-> d] : d \in SeqsUpTo(TripCsvRows, MaxTripRows)}
      \cup
    {[name |-> "b.xlsx", readable |-> TRUE, data |-> d] : d \in SeqsUpTo(TripXlsxRows, MaxTripRows)}

\* the answers of onPredict while an export is made and read back
TripResponses ==
    {Resolved(<<[label |-> "Galley", probability |-> 94500]>>), Rejected}

\* handleFileUpload on the file the last download wrote (a.download, line
\* 764), nothing shown having changed since: its text is the table as
\* Papa.unparse wrote it
Reupload ==
    /\ ~exported.isNull
    /\ ~results.isNull
    /\ exported = Unparse(columns, results.rows)
    /\ SelectFile([name |-> "categorized_feedback.csv", readable |-> TRUE,
                   data |-> ParseCsv(UnparseCsv(columns, results.rows))])

-----------------------------------------------------------------------------
(* App (src/Improve UI Design/src/App.tsx): the health checks, the single-   *)
(* comment analysis, and the bulk upload component it renders.               *)

MaxChecks == 2

NoHealth == [status |-> "", sub_classes_count |-> Undefined]

\* what checkHealth() resolves with: the answer of the server when the
\* request succeeded, and its own offline answer otherwise (lines 27-35)
HealthAnswers ==
    { [status |-> "healthy", sub_classes_count |-> Num("3")],
      [status |-> "healthy", sub_classes_count |-> Num("0")],
      [status |-> "healthy", sub_classes_count |-> Undefined],
      [status |-> "loading", sub_classes_count |-> Num("3")],
      [status |-> "offline", sub_classes_count |-> Num("0")] }

\* (health.sub_classes_count && health.sub_classes_count > 0) || false
IsLoaded(health) ==
    LET count == health.sub_classes_count
    IN  Truthy(count) /\ count.t = "number" /\ SubSeq(count.v, 1, 1) # "-"

NoPredictions == [isNull |-> TRUE, subPredictions |-> <<>>]

\* the state of App after it is mounted: the effect has started a health check
AppInit ==
    /\ appCommentText = ""
    /\ predictions = NoPredictions
    /\ isAnalyzing = FALSE
    /\ apiOnline = FALSE
    /\ modelLoaded = FALSE
    /\ checking = TRUE
    /\ bulkResults = <<>>
    /\ checks = <<[pc |-> "await", health |-> NoHealth]>>

\* the state of the bulk upload component, and what its callback sets
bulkVars == <<file, processing, progress, results, previewData, columns, stitchCount,
              pendingReads, runs, completed, exported, uploadsLeft, runsLeft, probe,
              bulkResults>>

\* checkApiHealth up to its await, started by "Retry connection": the button
\* is in the alert shown while the model is not loaded
CheckApiHealth ==
    /\ ~modelLoaded
    /\ Len(checks) < MaxChecks
    /\ checking' = TRUE
    /\ checks' = Append(checks, [pc |-> "await", health |-> NoHealth])
    /\ UNCHANGED <<appCommentText, predictions, isAnalyzing, apiOnline, modelLoaded,
                   alerts>>
    /\ UNCHANGED bulkVars

\* a check that takes the model as loaded whenever sub classes are counted
HealthDoneCountOnly(n, health) ==
    /\ n \in 1..Len(checks)
    /\ checks[n].pc = "await"
    /\ checks' = [checks EXCEPT ![n] = [pc |-> "done", health |-> health]]
    /\ apiOnline' = (health.status = "healthy")
    /\ modelLoaded' = IsLoaded(health)
    /\ checking' = FALSE
    /\ UNCHANGED <<appCommentText, predictions, isAnalyzing, alerts>>
    /\ UNCHANGED bulkVars

\* checkApiHealth after its await: the n-th check started gets its answer
HealthDone(n, health) ==
    /\ n \in 1..Len(checks)
    /\ checks[n].pc = "await"
    /\ checks' = [checks EXCEPT ![n] = [pc |-> "done", health |-> health]]
    /\ IF health.status = "healthy"
       THEN /\ apiOnline' = TRUE
            /\ modelLoaded' = IsLoaded(health)
       ELSE /\ apiOnline' = FALSE
            /\ modelLoaded' = FALSE
    /\ checking' = FALSE
    /\ UNCHANGED <<appCommentText, predictions, isAnalyzing, alerts>>
    /\ UNCHANGED bulkVars

CommentTexts == {"", " ", "late meal"}

\* the comment box is edited (line 278)
TypeComment(text) ==
    /\ appCommentText # text
    /\ appCommentText' = text
    /\ UNCHANGED <<predictions, isAnalyzing, apiOnline, modelLoaded, checking, checks,
                   alerts>>
    /\ UNCHANGED bulkVars

\* handleSelectSample
SelectSample(text) ==
    /\ appCommentText' = text
    /\ predictions' = NoPredictions
    /\ UNCHANGED <<isAnalyzing, apiOnline, modelLoaded, checking, checks, alerts>>
    /\ UNCHANGED bulkVars

\* the Analyze button: disabled={isAnalyzing || !modelLoaded}
AnalyzeEnabled == ~isAnalyzing /\ modelLoaded

\* handleAnalyze up to its await
Analyze ==
    /\ AnalyzeEnabled
    /\ IF Trim(appCommentText) = ""
       THEN /\ alerts' = alerts \cup {"Please enter a comment first."}
            /\ UNCHANGED isAnalyzing
       ELSE /\ isAnalyzing' = TRUE
            /\ UNCHANGED alerts
    /\ UNCHANGED <<appCommentText, predictions, apiOnline, modelLoaded, checking, checks>>
    /\ UNCHANGED bulkVars

\* handleAnalyze after its await: predictText resolved or rejected
AnalyzeDone(resp) ==
    /\ isAnalyzing
    /\ IF resp.ok
       THEN /\ predictions' = [isNull |-> FALSE, subPredictions |-> resp.subPredictions]
            /\ UNCHANGED alerts
       ELSE /\ alerts' = alerts \cup {"Failed to analyze feedback."}
            /\ UNCHANGED predictions
    /\ isAnalyzing' = FALSE
    /\ UNCHANGED <<appCommentText, apiOnline, modelLoaded, checking, checks>>
    /\ UNCHANGED bulkVars

\* the file the user uploads while the health of the backend changes
AppFiles == {f \in Files : f.name = "a.csv"}

\* App is mounted, with its bulk upload component
InitApp ==
    /\ file = NoFile
    /\ processing = FALSE
    /\ progress = <<0, 1>>
    /\ results = NullRows
    /\ previewData = NullRows
    /\ columns = <<>>
    /\ stitchCount = 0
    /\ pendingReads = <<>>
    /\ runs = <<>>
    /\ completed = <<>>
    /\ alerts = {}
    /\ exported = NoExport
    /\ uploadsLeft = 1
    /\ runsLeft = 1
    /\ probe = NoProbe
    /\ AppInit

NextApp ==
    \/ CheckApiHealth
    \/ \E n \in 1..MaxChecks, health \in HealthAnswers : HealthDone(n, health)
    \/ \E text \in CommentTexts : TypeComment(text)
    \/ \E text \in CommentTexts \ {""} : SelectSample(text)
    \/ Analyze
    \/ \E resp \in TripResponses : AnalyzeDone(resp)
    \/ \E f \in AppFiles : SelectFile(f)
    \/ ReadDone(1)
    \/ StartPrediction
    \/ ParseDone(1)
    \/ \E resp \in TripResponses : PredictSettle(1, resp)
    \/ TimerFire(1)

\* health checks, single analyses and one bulk run, in any interleaving
SpecApp == InitApp /\ [][NextApp]_vars

\* the state after the component is constructed
Init ==
    /\ file = NoFile
    /\ processing = FALSE
    /\ progress = <<0, 1>>
    /\ results = NullRows
    /\ previewData = NullRows
    /\ columns = <<>>
    /\ stitchCount = 0
    /\ pendingReads = <<>>
    /\ runs = <<>>
    /\ completed = <<>>
    /\ alerts = {}
    /\ exported = NoExport
    /\ uploadsLeft = MaxUploads
    /\ runsLeft = MaxRuns
    /\ probe = NoProbe
    /\ AppInit

Next ==
    \/ \E f \in Files : SelectFile(f)
    \/ \E n \in 1..MaxUploads : ReadDone(n)
    \/ StartPrediction
    \/ \E k \in 1..MaxRuns : ParseDone(k)
    \/ \E k \in 1..MaxRuns, resp \in Responses : PredictSettle(k, resp)
    \/ \E k \in 1..MaxRuns : TimerFire(k)
    \/ Download

\* any interleaving of file selections, runs and downloads over Files
Spec == Init /\ [][Next]_vars

\* a file of AllFiles has been selected and its preview is shown
InitRun ==
    /\ file \in AllFiles
    /\ processing = FALSE
    /\ progress = <<0, 1>>
    /\ results = NullRows
    /\ previewData = Rows(Slice5(file.data))
    /\ columns = <<>>
    /\ stitchCount = 0
    /\ pendingReads = <<>>
    /\ runs = <<>>
    /\ completed = <<>>
    /\ alerts = {}
    /\ exported = NoExport
    /\ uploadsLeft = 0
    /\ runsLeft = 1
    /\ probe = NoProbe
    /\ AppInit

NextRun ==
    \/ StartPrediction
    \/ ParseDone(1)
    \/ \E resp \in Responses : PredictSettle(1, resp)
    \/ TimerFire(1)
    \/ Download

\* one run over every file of AllFiles
SpecRun == InitRun /\ [][NextRun]_vars

InitCols ==
    /\ file = NoFile
    /\ processing = FALSE
    /\ progress = <<0, 1>>
    /\ results = NullRows
    /\ previewData = NullRows
    /\ columns = <<>>
    /\ stitchCount = 0
    /\ pendingReads = <<>>
    /\ runs = <<>>
    /\ completed = <<>>
    /\ alerts = {}
    /\ exported = NoExport
    /\ uploadsLeft = 0
    /\ runsLeft = 0
    /\ \E h \in HeaderLists : probe = [headers |-> h, textCol |-> Undefined, applied |-> FALSE]
    /\ AppInit

NextCols == ApplyFind

\* the text column search over every header list of HeaderLists
SpecCols == InitCols /\ [][NextCols]_vars

InitSheets ==
    /\ file = NoFile
    /\ processing = FALSE
    /\ progress = <<0, 1>>
    /\ results = NullRows
    /\ previewData = NullRows
    /\ columns = <<>>
    /\ stitchCount = 0
    /\ pendingReads = <<>>
    /\ runs = <<>>
    /\ completed = <<>>
    /\ alerts = {}
    /\ exported = NoExport
    /\ uploadsLeft = 0
    /\ runsLeft = 0
    /\ \E wb \in Workbooks :
           probe = [workbook |-> wb, parsed |-> [sheet |-> 0], applied |-> FALSE]
    /\ AppInit

NextSheets == ApplyParseExcel

\* parseExcel over every workbook of Workbooks
SpecSheets == InitSheets /\ [][NextSheets]_vars

\* a file of TripFiles has been selected and its preview is shown
InitTrip ==
    /\ file \in TripFiles
    /\ processing = FALSE
    /\ progress = <<0, 1>>
    /\ results = NullRows
    /\ previewData = Rows(Slice5(file.data))
    /\ columns = <<>>
    /\ stitchCount = 0
    /\ pendingReads = <<>>
    /\ runs = <<>>
    /\ completed = <<>>
    /\ alerts = {}
    /\ exported = NoExport
    /\ uploadsLeft = 1
    /\ runsLeft = 2
    /\ probe = NoProbe
    /\ AppInit

NextTrip ==
    \/ StartPrediction
    \/ \E k \in 1..2 : ParseDone(k)
    \/ \E k \in 1..2, resp \in TripResponses : PredictSettle(k, resp)
    \/ \E k \in 1..2 : TimerFire(k)
    \/ Download
    \/ Reupload
    \/ ReadDone(1)

\* a run, its export, and a second run on the exported file
SpecTrip == InitTrip /\ [][NextTrip]_vars

\* the files of Files and a spreadsheet whose text cell is a number
LiveFiles ==
    Files \cup
    { [name |-> "n.xlsx", readable |-> TRUE, data |->
          << MkRow(RunHeaders, <<Str("1"), Str("late meal"), Str("")>>),
             MkRow(RunHeaders, <<Str("2"), Num("42"), Str("")>>) >>] }

NextLive ==
    \/ \E f \in LiveFiles : SelectFile(f)
    \/ \E n \in 1..MaxUploads : ReadDone(n)
    \/ StartPrediction
    \/ \E k \in 1..MaxRuns : ParseDone(k)
    \/ \E k \in 1..MaxRuns, resp \in Responses : PredictSettle(k, resp)
    \/ \E k \in 1..MaxRuns : TimerFire(k)
    \/ Download

\* run k waits for its file to be parsed
AwaitsParse(k) == k \in 1..Len(runs) /\ runs[k].pc = "parse"

\* every promise a run awaits settles: the file reader calls back (ParseDone(k)
\* is enabled exactly while run k waits for it and ends the wait, so weak
\* fairness of it says that no run waits for ever), onPredict resolves or
\* rejects, the timer fires; nothing is asked of the user
SpecLive ==
    /\ Init
    /\ [][NextLive]_vars
    /\ \A k \in 1..MaxRuns :
           /\ []<>(~AwaitsParse(k))
           /\ WF_vars(\E resp \in Responses : PredictSettle(k, resp))
           /\ WF_vars(TimerFire(k))

\* answers of onPredict without a label: no entry, or a first entry whose
\* label is empty, with and without a probability
UnknownResponses ==
    { Resolved(<< >>),
      Resolved(<< [label |-> "", probability |-> 55000] >>),
      Resolved(<< [label |-> "", probability |-> 0] >>),
      Resolved(<< [label |-> "Galley", probability |-> 94500] >>),
      Rejected }

\* a short file of AllFiles has been selected and its preview is shown
InitUnknown ==
    /\ InitRun
    /\ Len(file.data) <= MaxTripRows

NextUnknown ==
    \/ StartPrediction
    \/ ParseDone(1)
    \/ \E resp \in UnknownResponses : PredictSettle(1, resp)
    \/ TimerFire(1)
    \/ Download

\* one run whose onPredict calls are answered without a label
SpecUnknown == InitUnknown /\ [][NextUnknown]_vars

-----------------------------------------------------------------------------
(* The analytics dashboard (src/unnamed/part_003, AnalyticsDashboard): the   *)
(* confidence buckets computed from the rows handed to onUploadComplete.     *)

MaxDashRows == 3

IsDigit(c) == \E d \in 0..9 : Digit(d) = c

DigitValue(c) == CHOOSE d \in 0..9 : Digit(d) = c

\* the length of the longest run of digits of s that starts at position from
RECURSIVE DigitsFrom(_, _)
DigitsFrom(s, from) ==
    IF from <= Len(s) /\ IsDigit(SubSeq(s, from, from))
    THEN 1 + DigitsFrom(s, from + 1)
    ELSE 0

\* the number a string of digits writes
RECURSIVE DigitsToNat(_)
DigitsToNat(s) ==
    IF Len(s) = 0 THEN 0
    ELSE 10 * DigitsToNat(SubSeq(s, 1, Len(s) - 1)) + DigitValue(SubSeq(s, Len(s), Len(s)))

\* String.prototype.replace with a string pattern: the first occurrence only
Replace(s, pattern, by) ==
    IF Includes(s, pattern)
    THEN LET i == CHOOSE j \in 0..(Len(s) - Len(pattern)) :
                      /\ SubSeq(s, j + 1, j + Len(pattern)) = pattern
                      /\ \A h \in 0..(j - 1) : SubSeq(s, h + 1, h + Len(pattern)) # pattern
         IN  SubSeq(s, 1, i) \o by \o SubSeq(s, i + Len(pattern) + 1, Len(s))
    ELSE s

NaN == [nan |-> TRUE, hundredths |-> 0]

\* parseFloat of an unsigned decimal: the longest prefix that is a number,
\* NaN when there is none; the value is kept in hundredths, further decimals
\* being cut (no comparison of the dashboard tells them apart)
ParseFloat(s) ==
    LET t == TrimStart(s)
        n == DigitsFrom(t, 1)
        dot == n + 1 <= Len(t) /\ SubSeq(t, n + 1, n + 1) = "."
        f == IF dot THEN DigitsFrom(t, n + 2) ELSE 0
        frac == SubSeq(t, n + 2, n + 1 + f) \o "00"
    IN  IF n = 0 /\ f = 0 THEN NaN
        ELSE [nan |-> FALSE,
              hundredths |-> 100 * DigitsToNat(SubSeq(t, 1, n))
                               + DigitsToNat(SubSeq(frac, 1, 2))]

\* val < limit for a limit given in whole percents: false for NaN
LessThan(val, limit) == ~val.nan /\ val.hundredths < 100 * limit

\* the bucket one row is counted in, "" when the row has no confidence
BucketOf(row) ==
    LET confStr == ObjGet(row, "Subcategory_Confidence")
    IN  IF ~Truthy(confStr) THEN ""
        ELSE LET val == ParseFloat(Replace(confStr.v, "%", ""))
             IN  IF LessThan(val, 70) THEN "Low (<70%)"
                 ELSE IF LessThan(val, 90) THEN "Medium (70-90%)"
                 ELSE "High (>90%)"

BucketNames == <<"Low (<70%)", "Medium (70-90%)", "High (>90%)">>

\* confidenceData: the three buckets with their counts, nothing for no rows
ConfidenceData(rs) ==
    IF Len(rs) = 0 THEN <<>>
    ELSE [b \in 1..3 |->
            [name |-> BucketNames[b],
             count |-> Cardinality({n \in 1..Len(rs) : BucketOf(rs[n]) = BucketNames[b]})]]

\* probabilities, in thousandths of a percent, around the bucket limits
DashProbabilities == {0, 69990, 69996, 70000, 89990, 89996, 90000, 90010, 100000}

DashRecord == MkRow(<<"ID", "Comments">>, <<Str("1"), Str("late meal")>>)

\* the rows a bulk run hands over: predicted, failed, passed through without
\* text, and passed through with an empty confidence cell of the file's own
DashRows ==
    {OnResolve(DashRecord, <<[label |-> "Galley", probability |-> p]>>) : p \in DashProbabilities}
      \cup {OnReject(DashRecord), OnSkip(DashRecord),
            OnSkip(ObjSet(DashRecord, "Subcategory_Confidence", Str("")))}

\* the dashboard computes its buckets for the rows under test
ApplyConfidence ==
    /\ ~probe.applied
    /\ probe' = [probe EXCEPT !.buckets = ConfidenceData(probe.results), !.applied = TRUE]
    /\ UNCHANGED <<file, processing, progress, results, previewData, columns,
                   stitchCount, pendingReads, runs, completed, alerts, exported,
                   uploadsLeft, runsLeft, appVars,
                   bulkResults>>

InitDash ==
    /\ file = NoFile
    /\ processing = FALSE
    /\ progress = <<0, 1>>
    /\ results = NullRows
    /\ previewData = NullRows
    /\ columns = <<>>
    /\ stitchCount = 0
    /\ pendingReads = <<>>
    /\ runs = <<>>
    /\ completed = <<>>
    /\ alerts = {}
    /\ exported = NoExport
    /\ uploadsLeft = 0
    /\ runsLeft = 0
    /\ \E rs \in SeqsUpTo(DashRows, MaxDashRows) :
           probe = [results |-> rs, buckets |-> <<>>, applied |-> FALSE]
    /\ AppInit

NextDash == ApplyConfidence

\* the confidence buckets over every list of at most MaxDashRows rows
SpecDash == InitDash /\ [][NextDash]_vars


-----------------------------------------------------------------------------
(* Vocabulary of the claims *)

Synthetic == {"Predicted_Subcategory", "Subcategory_Confidence"}

RunIds == 1..Len(runs)

\* the text column of a record is empty or white space only
HasNoText(row, textCol) ==
    LET cell == ObjGet(row, textCol)
    IN  cell.t = "undefined" \/ (cell.t = "string" /\ Trim(cell.v) = "")

\* the row keeps every original column of the record it was made from
KeepsOriginals(out, row) ==
    \A n \in 1..Len(row) : row[n].k \notin Synthetic => ObjGet(out, row[n].k) = row[n].v

\* run r stopped because a text cell is not a string (the call of trim throws)
HitNonString(r) ==
    /\ r.i \in 1..Len(r.cleanData)
    /\ ObjGet(r.cleanData[r.i], r.textCol).t = "number"

-----------------------------------------------------------------------------
(* C1: partial failure isolation.  In every run, a record whose onPredict    *)
(* call rejected is written to the run's results as its original columns    *)
(* plus Predicted_Subcategory = "Error" and Subcategory_Confidence = "0%";   *)
(* a record whose call resolved is written with the label of its own         *)
(* response; a rejection never ends the run (a run ends only by publishing   *)
(* its rows or on a text cell that is not a string); and a published run     *)
(* has asked a prediction for every record with text and has one row per     *)
(* record, in the argument of onUploadComplete and in results.               *)

C1_PartialFailureIsolation ==
    \A k \in RunIds :
        LET r == runs[k]
        IN  /\ \A n \in 1..Len(r.responses) :
                   LET j == r.calls[n].i
                       resp == r.responses[n]
                   IN  /\ j <= Len(r.processedResults)
                       /\ KeepsOriginals(r.processedResults[j], r.cleanData[j])
                       /\ ~resp.ok =>
                             /\ ObjGet(r.processedResults[j], "Predicted_Subcategory")
                                  = Str("Error")
                             /\ ObjGet(r.processedResults[j], "Subcategory_Confidence")
                                  = Str("0%")
                       /\ (resp.ok /\ resp.subPredictions # <<>>) =>
                             ObjGet(r.processedResults[j], "Predicted_Subcategory")
                               = Str(resp.subPredictions[1].label)
            /\ r.end = "aborted" => HitNonString(r)
            /\ r.end = "published" =>
                  /\ Len(r.processedResults) = Len(r.cleanData)
                  /\ Len(r.responses) = Len(r.calls)
                  /\ \A j \in 1..Len(r.cleanData) :
                         HasNoText(r.cleanData[j], r.textCol)
                           \/ \E n \in 1..Len(r.calls) : r.calls[n].i = j
                  /\ \E m \in 1..Len(completed) : completed[m] = r.processedResults
                  /\ results = Rows(r.processedResults)

\* a published run of three records: the call of the second rejected, the other
\* two resolved
C1_Witness ==
    \E k \in RunIds :
        /\ runs[k].end = "published"
        /\ Len(runs[k].cleanData) = 3
        /\ Len(runs[k].responses) = 3
        /\ runs[k].responses[1].ok
        /\ ~runs[k].responses[2].ok
        /\ runs[k].responses[3].ok

(* C3: empty-text skip.  For every record of the stitched dataset whose text  *)
(* column is empty or white space only, no onPredict call is made, the row    *)
(* written for it is the record itself (no synthetic column, so no "Error" /  *)
(* "0%" marker, is added), and a published run has a row for it.              *)

C3_EmptyTextSkipped ==
    \A k \in RunIds :
        LET r == runs[k]
        IN  \A j \in 1..Len(r.cleanData) :
                HasNoText(r.cleanData[j], r.textCol) =>
                    /\ \A n \in 1..Len(r.calls) : r.calls[n].i # j
                    /\ j <= Len(r.processedResults) =>
                          /\ r.processedResults[j] = r.cleanData[j]
                          /\ \A c \in Synthetic : ~ObjHas(r.processedResults[j], c)
                    /\ r.end = "published" => j <= Len(r.processedResults)

\* a published run with a white-space-only record between two predicted ones
C3_Witness ==
    \E k \in RunIds :
        /\ runs[k].end = "published"
        /\ Len(runs[k].cleanData) = 3
        /\ ObjGet(runs[k].cleanData[2], runs[k].textCol) = Str(" ")
        /\ Len(runs[k].calls) = 2

(* C2: at most one onPredict call of the bulk upload is in flight at any      *)
(* moment, and at most one run is active: a run has one more call than        *)
(* responses exactly while it awaits onPredict, and no run is started while   *)
(* another has not ended, whatever files are selected in between.             *)

InFlight == {k \in RunIds : runs[k].pc = "predict"}
Active == {k \in RunIds : runs[k].pc # "done"}

C2_OneCallInFlight ==
    /\ Cardinality(InFlight) <= 1
    /\ Cardinality(Active) <= 1
    /\ \A k \in RunIds :
           Len(runs[k].calls) - Len(runs[k].responses)
             = IF runs[k].pc = "predict" THEN 1 ELSE 0

\* a second run, on another file, awaits a prediction after the first run
\* published its rows
C2_Witness ==
    /\ Len(runs) = 2
    /\ runs[1].end = "published"
    /\ Len(runs[1].calls) > 0
    /\ runs[2].pc = "predict"
    /\ runs[2].file # runs[1].file

(* C7: file-level failures issue no predictions and publish nothing.  A run   *)
(* on a file that cannot be decoded, has no data records, or has no header    *)
(* matching the keyword set never calls onPredict, and no step of that run    *)
(* sets results or invokes onUploadComplete.                                  *)

FileLevelFailure(f) ==
    \/ ~f.readable
    \/ Len(f.data) = 0
    \/ \A n \in 1..Len(f.data[1]) : ~HeaderMatches(f.data[1][n].k)

C7_FileFailurePublishesNothing ==
    [][\A k \in RunIds :
          (runs'[k] # runs[k] /\ FileLevelFailure(runs[k].file)) =>
              /\ results' = results
              /\ completed' = completed
              /\ runs'[k].calls = <<>>
              /\ runs'[k].pc = "done"]_vars

\* a run on a file without text column and a run on a file without data records
\* have both ended
C7_Witness ==
    \E k1, k2 \in RunIds :
        /\ runs[k1].pc = "done"
        /\ Len(runs[k1].file.data) > 0
        /\ FileLevelFailure(runs[k1].file)
        /\ runs[k2].pc = "done"
        /\ runs[k2].file.readable
        /\ Len(runs[k2].file.data) = 0

-----------------------------------------------------------------------------
(* Stitching, stated over the rows the loader produced *)

\* run r has parsed its file, found its text column and stitched
Stitched(r) == r.pc # "parse" /\ r.end \notin {"unreadable", "empty", "nocolumn"}

\* a genuine record: its key (first) column is not empty
IsGenuine(row) == ObjGet(row, row[1].k) \notin {Undefined, Str("")}

\* the positions of rawData that pass the test, in order
Positions(rawData, Test(_)) == SelectSeq([n \in 1..Len(rawData) |-> n], Test)

\* the non-empty cell values of a row, space-joined in column order
FragmentText(row) ==
    LET full == SelectSeq(ObjValues(row), LAMBDA c : c # Str(""))
    IN  Join([n \in 1..Len(full) |-> full[n].v], " ")

\* what the fragments from position n up to the next genuine record add
RECURSIVE FragmentsAfter(_, _)
FragmentsAfter(rawData, n) ==
    IF n > Len(rawData) \/ IsGenuine(rawData[n]) THEN ""
    ELSE "\n" \o FragmentText(rawData[n]) \o FragmentsAfter(rawData, n + 1)

(* C5: fragment merge.  For a delimited-text source the genuine records of    *)
(* the stitched dataset are the genuine input records, in order, each with    *)
(* its text column extended, for every empty-key row that follows it up to    *)
(* the next genuine record, by a newline and the row's non-empty cell values  *)
(* space-joined in column order; no row after the first genuine record has a  *)
(* row of its own; the stitch count is the number of such rows.               *)

C5_FragmentMerge ==
    \A k \in RunIds :
        LET r == runs[k]
            genuine == Positions(r.rawData, LAMBDA n : IsGenuine(r.rawData[n]))
            out == SelectSeq(r.cleanData, IsGenuine)
            before == IF Len(genuine) = 0 THEN Len(r.rawData) ELSE genuine[1] - 1
        IN  (Stitched(r) /\ ~IsExcel(r.file)) =>
                /\ Len(out) = Len(genuine)
                /\ \A m \in 1..Len(out) :
                       LET row == r.rawData[genuine[m]]
                       IN  out[m] = ObjSet(row, r.textCol,
                                           Str(ObjGet(row, r.textCol).v
                                               \o FragmentsAfter(r.rawData, genuine[m] + 1)))
                /\ Len(r.cleanData) - Len(out) <= before
                /\ r.stitched = Len(r.rawData) - Len(genuine) - before

\* two genuine records, the second followed by two fragments
C5_Witness ==
    \E k \in RunIds :
        /\ Stitched(runs[k])
        /\ ~IsExcel(runs[k].file)
        /\ Len(runs[k].rawData) = 3
        /\ IsGenuine(runs[k].rawData[1])
        /\ ~IsGenuine(runs[k].rawData[2])
        /\ ~IsGenuine(runs[k].rawData[3])
        /\ runs[k].stitched = 2
        /\ Len(runs[k].cleanData) = 1

(* C6: a fragment row (empty key column) that occurs before any genuine       *)
(* record is dropped: the stitched dataset of a delimited-text source has no  *)
(* row with an empty key column, and no such row reaches the prediction loop. *)

C6_LeadingFragmentDropped ==
    \A k \in RunIds :
        (Stitched(runs[k]) /\ ~IsExcel(runs[k].file)) =>
            /\ \A j \in 1..Len(runs[k].cleanData) : IsGenuine(runs[k].cleanData[j])
            /\ \A n \in 1..Len(runs[k].calls) :
                   IsGenuine(runs[k].cleanData[runs[k].calls[n].i])

(* C4: order preservation, as claimed.  The N-th genuine input record is the  *)
(* N-th row of the results of a published run: the results have one row per   *)
(* genuine record, in input order, and no other row.                          *)

\* the row was made from the input row: same key and same other columns
MadeFrom(out, row, textCol) ==
    \A n \in 1..Len(row) : row[n].k # textCol => ObjGet(out, row[n].k) = row[n].v

C4_NthGenuineIsNthRow ==
    \A k \in RunIds :
        LET r == runs[k]
            genuine == Positions(r.rawData, LAMBDA n : IsGenuine(r.rawData[n]))
        IN  r.end = "published" =>
                /\ Len(r.processedResults) = Len(genuine)
                /\ \A m \in 1..Len(genuine) :
                       MadeFrom(r.processedResults[m], r.rawData[genuine[m]], r.textCol)

(* C4, amended.  The rows of the results of a published run are, in input     *)
(* order, the genuine records and the empty-key rows with a non-empty text    *)
(* cell that were not merged (every such row of a spreadsheet; of a           *)
(* delimited-text source those before the first genuine record): no genuine   *)
(* record is dropped, duplicated or reordered, and a kept empty-key row is    *)
(* passed on with its cells unchanged.                                        *)

C4_GenuineOrderKept ==
    \A k \in RunIds :
        LET r == runs[k]
            KeptAlone(n) ==
                /\ ~IsGenuine(r.rawData[n])
                /\ Truthy(ObjGet(r.rawData[n], r.textCol))
                /\ IsExcel(r.file) \/ \A m \in 1..(n - 1) : ~IsGenuine(r.rawData[m])
            kept == Positions(r.rawData,
                              LAMBDA n : IsGenuine(r.rawData[n]) \/ KeptAlone(n))
        IN  r.end = "published" =>
                /\ Len(r.processedResults) = Len(kept)
                /\ \A m \in 1..Len(kept) :
                       /\ MadeFrom(r.processedResults[m], r.rawData[kept[m]], r.textCol)
                       /\ KeptAlone(kept[m]) =>
                             ObjGet(r.processedResults[m], r.textCol)
                               = ObjGet(r.rawData[kept[m]], r.textCol)

\* a published spreadsheet run whose second row, between two genuine records,
\* has an empty key and a text of its own
C4_Witness ==
    \E k \in RunIds :
        /\ runs[k].end = "published"
        /\ IsExcel(runs[k].file)
        /\ Len(runs[k].rawData) = 3
        /\ IsGenuine(runs[k].rawData[1])
        /\ ~IsGenuine(runs[k].rawData[2])
        /\ IsGenuine(runs[k].rawData[3])
        /\ Len(runs[k].processedResults) = 3

-----------------------------------------------------------------------------
(* C8: text-column selection is first-match.  The resolved text column is     *)
(* the first header, in column order, whose lower-cased trimmed name          *)
(* contains a keyword; none is resolved exactly when no header does;          *)
(* ["ID","Comments","Date"] resolves to "Comments" and ["Feedback","Review"]  *)
(* to "Feedback".                                                             *)

C8_FirstMatchingHeader ==
    probe.applied =>
        LET h == probe.headers
            matching == {n \in 1..Len(h) : HeaderMatches(h[n])}
        IN  /\ matching = {} => probe.textCol = Undefined
            /\ matching # {} =>
                  \E n \in matching :
                      /\ \A m \in matching : n <= m
                      /\ probe.textCol = Str(h[n])
            /\ h = <<"ID", "Comments", "Date">> => probe.textCol = Str("Comments")
            /\ h = <<"Feedback", "Review">> => probe.textCol = Str("Feedback")
            /\ h = <<"ID", "Date", "Notes">> => probe.textCol = Undefined
            /\ h = <<"Notes", " TEXT ", "Comments">> => probe.textCol = Str(" TEXT ")
            /\ h = <<"Date", "Context">> => probe.textCol = Str("Context")

\* the search has been applied to a header list with two matching headers
C8_Witness ==
    /\ probe.applied
    /\ probe.headers = <<"ID", "Feedback", "Review">>
    /\ probe.textCol = Str("Feedback")

(* C9: column uniformity, as claimed.  Every row of the results of a          *)
(* published run carries a value for both synthetic columns.                  *)

C10_ExportColumnList ==
    \A cols \in {columns} \cup (IF exported.isNull THEN {} ELSE {exported.fields}) :
        cols # <<>> =>
            /\ \E k \in RunIds :
                   /\ Stitched(runs[k])
                   /\ cols = runs[k].originalHeaders
                               \o <<"Predicted_Subcategory", "Subcategory_Confidence">>
            /\ \A a, b \in 1..Len(cols) : a # b => cols[a] # cols[b]

-----------------------------------------------------------------------------
(* C11: for every record whose onPredict call resolved with a non-empty       *)
(* prediction list, Predicted_Subcategory is the label of the first entry     *)
(* and Subcategory_Confidence is that entry's probability with two decimal    *)
(* places followed by "%", for every probability, 0 included.                 *)

C11_TopEntryFormatted ==
    \A k \in RunIds :
        LET r == runs[k]
        IN  \A n \in 1..Len(r.responses) :
                LET resp == r.responses[n]
                    out == r.processedResults[r.calls[n].i]
                IN  (resp.ok /\ resp.subPredictions # <<>>) =>
                        /\ ObjGet(out, "Predicted_Subcategory")
                             = Str(resp.subPredictions[1].label)
                        /\ ObjGet(out, "Subcategory_Confidence")
                             = Str(ToFixed2(resp.subPredictions[1].probability) \o "%")

(* C12: no retry.  In every run the onPredict calls go through the records    *)
(* in strictly increasing order, so no record is asked for twice, whether     *)
(* its call resolved or rejected; a call is made only for a record with       *)
(* text, with the trimmed text; at most one call is unanswered; and a         *)
(* published run has made exactly one call for each record with text.         *)

C12_NoRetry ==
    \A k \in RunIds :
        LET r == runs[k]
        IN  /\ \A n, m \in 1..Len(r.calls) : n < m => r.calls[n].i < r.calls[m].i
            /\ \A n \in 1..Len(r.calls) :
                   /\ r.calls[n].i \in 1..Len(r.cleanData)
                   /\ ~HasNoText(r.cleanData[r.calls[n].i], r.textCol)
                   /\ r.calls[n].text = Trim(ObjGet(r.cleanData[r.calls[n].i], r.textCol).v)
            /\ Len(r.responses) \in {Len(r.calls), Len(r.calls) - 1}
            /\ r.end = "published" =>
                   \A j \in 1..Len(r.cleanData) :
                       Cardinality({n \in 1..Len(r.calls) : r.calls[n].i = j})
                         = IF HasNoText(r.cleanData[j], r.textCol) THEN 0 ELSE 1

\* a published run of two records whose calls both rejected: two calls in all
C12_Witness ==
    \E k \in RunIds :
        /\ runs[k].end = "published"
        /\ Len(runs[k].cleanData) = 2
        /\ Len(runs[k].calls) = 2
        /\ Len(runs[k].responses) = 2
        /\ ~runs[k].responses[1].ok
        /\ ~runs[k].responses[2].ok

(* C13: record-level errors never halt a run and are counted.  No run ends    *)
(* in the outer catch because of one record, and when results are shown and   *)
(* some record failed, the summary text shows the number of failed records.   *)

FailedRows(rows) ==
    Cardinality({j \in 1..Len(rows) : ObjGet(rows[j], "Predicted_Subcategory") = Str("Error")})

C13_NeverHaltedByARecord == \A k \in RunIds : runs[k].end # "aborted"

C13_FailedCountShown ==
    (~results.isNull /\ FailedRows(results.rows) > 0) =>
        Includes(SuccessText, NatToStr(FailedRows(results.rows)))

C13_RecordErrorsCounted == C13_NeverHaltedByARecord /\ C13_FailedCountShown

(* C14: each new upload resets all pipeline state.  Once the selected file    *)
(* has been read or has failed to be read, the preview is cleared or is the   *)
(* preview of that file, and the export column list, the results and the      *)
(* stitch count are cleared or come from a run on that file.                  *)

C14_NoStateOfPreviousUpload ==
    (file # NoFile /\ pendingReads = <<>>) =>
        /\ previewData.isNull \/ previewData.rows = Slice5(file.data)
        /\ columns = <<>>
             \/ \E k \in RunIds :
                    /\ runs[k].file = file
                    /\ columns = FinalHeaders(runs[k].originalHeaders)
        /\ results.isNull
             \/ \E k \in RunIds :
                    /\ runs[k].file = file
                    /\ results.rows = runs[k].processedResults
        /\ stitchCount = 0
             \/ \E k \in RunIds :
                    /\ runs[k].file = file
                    /\ stitchCount = runs[k].stitched

(* C15: progress is completedCount/totalCount after each record.  Whenever    *)
(* a run is in or past its loop, the progress value equals the number of      *)
(* records handled so far (predicted, skipped or failed) over the number of   *)
(* records, so it is 100% when the run has published.                         *)

C15_ProgressIsHandledOverTotal ==
    \A k \in RunIds :
        LET r == runs[k]
        IN  (r.pc \in {"predict", "timer"} \/ r.end = "published") /\ Len(r.cleanData) > 0 =>
                progress[1] * Len(r.cleanData) = Len(r.processedResults) * progress[2]

(* C16: stitcher idempotence.  When every row the loader produced has a       *)
(* non-empty key column, the stitched dataset is the loaded dataset (same     *)
(* rows, same order, same cells) and the stitch count is 0; and stitching     *)
(* again a stitched dataset all of whose rows have a non-empty key column     *)
(* returns it unchanged with a count of 0.                                    *)

C16_StitchIsNoOpOnGenuineRows ==
    \A k \in RunIds :
        LET r == runs[k]
        IN  Stitched(r) =>
                /\ (\A n \in 1..Len(r.rawData) : IsGenuine(r.rawData[n])) =>
                       /\ r.cleanData = r.rawData
                       /\ r.stitched = 0
                       /\ stitchCount = 0
                /\ (\A n \in 1..Len(r.cleanData) : IsGenuine(r.cleanData[n])) =>
                       Stitch(r.cleanData, r.originalHeaders, r.textCol, IsExcel(r.file))
                         = [cleanData |-> r.cleanData, stitched |-> 0]

\* a delimited-text file of three genuine records, one of them without text,
\* has been stitched
C16_Witness ==
    \E k \in RunIds :
        /\ Stitched(runs[k])
        /\ ~IsExcel(runs[k].file)
        /\ Len(runs[k].rawData) = 3
        /\ \A n \in 1..3 : IsGenuine(runs[k].rawData[n])
        /\ ObjGet(runs[k].rawData[2], runs[k].textCol) = Str("")
        /\ Len(runs[k].cleanData) = 3

(* C17: spreadsheet sources bypass stitching.  For an .xlsx/.xls upload the   *)
(* records entering the prediction loop are exactly the rows the loader       *)
(* produced, in the same order, and the stitch count is 0.                    *)

C17_SpreadsheetBypassesStitching ==
    \A k \in RunIds :
        LET r == runs[k]
        IN  (Stitched(r) /\ IsExcel(r.file)) =>
                /\ r.cleanData = r.rawData
                /\ r.stitched = 0

(* C18: when no column matches the keyword set, the notification contains    *)
(* the full list of detected headers: some message shown for the run names    *)
(* every header of the file.                                                  *)

C18_AlertListsHeaders ==
    \A k \in RunIds :
        runs[k].end = "nocolumn" =>
            \E message \in alerts :
                \A n \in 1..Len(runs[k].file.data[1]) :
                    Includes(message, runs[k].file.data[1][n].k)

(* C19: spreadsheet sheet selection.  The loader uses the first sheet, in     *)
(* workbook order, that has among its first 20 rows a row with a string cell  *)
(* containing a keyword, the first such row being the header row and the      *)
(* rows under it the records; when no sheet has such a row it uses the first  *)
(* sheet with its first row as header row.                                    *)

\* row j of the sheet is among the rows scanned and has a keyword cell
IsHeaderRow(sheet, j) ==
    /\ j \in 1..Len(sheet.rows)
    /\ j <= 20
    /\ \E c \in 1..Len(sheet.rows[j]) : CellMatches(sheet.rows[j][c])

\* the records of a sheet whose header row is its row j
RecordsUnder(sheet, j) ==
    LET names == HeaderNamesOf(sheet.rows[j])
        under == SubSeq(sheet.rows, j + 1, Len(sheet.rows))
        filled == SelectSeq(under, LAMBDA row : \E c \in 1..Len(row) : row[c] # Undefined)
    IN  [n \in 1..Len(filled) |->
            [c \in 1..Len(names) |->
                Entry(names[c], IF filled[n][c] = Undefined THEN Str("") ELSE filled[n][c])]]

C19_FirstSheetWithHeaderRow ==
    probe.applied =>
        LET wb == probe.workbook
            found == {s \in 1..Len(wb) : \E j \in 1..Len(wb[s].rows) : IsHeaderRow(wb[s], j)}
        IN  IF found # {}
            THEN LET s == CHOOSE x \in found : \A y \in found : x <= y
                     j == CHOOSE x \in 1..Len(wb[s].rows) :
                              /\ IsHeaderRow(wb[s], x)
                              /\ \A y \in 1..(x - 1) : ~IsHeaderRow(wb[s], y)
                 IN  /\ probe.parsed.sheet = s
                     /\ probe.parsed.headers = HeaderNamesOf(wb[s].rows[j])
                     /\ probe.parsed.data = RecordsUnder(wb[s], j)
            ELSE /\ probe.parsed.sheet = 0
                 /\ probe.parsed.headers = HeaderNamesOf(wb[1].rows[1])
                 /\ probe.parsed.data = RecordsUnder(wb[1], 1)

(* C20: export/re-import round trip.  The file the download wrote, loaded     *)
(* again, has the records of a published run with the same cell values (the   *)
(* two synthetic columns set aside), and a run on it finds no fragment: its   *)
(* stitch count is 0 and its stitched dataset is the loaded one.              *)

\* the cells of the rows as text, without the synthetic columns
CellTexts(rows) ==
    [n \in 1..Len(rows) |->
        LET own == SelectSeq(rows[n], LAMBDA e : e.k \notin Synthetic)
        IN  [c \in 1..Len(own) |-> <<own[c].k, ToStr(own[c].v)>>]]

C20_LoadedAgainAsExported ==
    file.name = "categorized_feedback.csv" =>
        \E k \in RunIds :
            /\ runs[k].end = "published"
            /\ CellTexts(file.data) = CellTexts(runs[k].processedResults)

C20_NoFragmentAfterReimport ==
    \A k \in RunIds :
        (runs[k].file.name = "categorized_feedback.csv" /\ Stitched(runs[k])) =>
            /\ runs[k].stitched = 0
            /\ runs[k].cleanData = runs[k].rawData

C20_RoundTrip == C20_LoadedAgainAsExported /\ C20_NoFragmentAfterReimport

-----------------------------------------------------------------------------
(* C21: the stitch count a run reports (setStitchCount, line 697) is the      *)
(* number of input rows that were merged as fragments into a preceding        *)
(* record, and stitchCount is 0 right after every Start Prediction and right  *)
(* after every file selection.                                                *)

\* the rows of a delimited-text source that have an empty key, a non-empty
\* cell and a genuine record somewhere before them; none for a spreadsheet
MergedRows(r) ==
    IF IsExcel(r.file) THEN 0
    ELSE Cardinality({n \in 1..Len(r.rawData) :
                         /\ ~IsGenuine(r.rawData[n])
                         /\ \E m \in 1..(n - 1) : IsGenuine(r.rawData[m])
                         /\ \E c \in 1..Len(r.rawData[n]) : r.rawData[n][c].v # Str("")})

C21_StitchCountReported ==
    [][/\ uploadsLeft' # uploadsLeft => stitchCount' = 0
       /\ Len(runs') > Len(runs) => stitchCount' = 0
       /\ \A k \in RunIds :
              (~Stitched(runs[k]) /\ Stitched(runs'[k])) =>
                  /\ runs'[k].stitched = MergedRows(runs'[k])
                  /\ stitchCount' = runs'[k].stitched]_vars

\* the second run on a file with a fragment row has stitched, after the file
\* was selected a second time: the count is 1 again
C21_Witness ==
    /\ Len(runs) = 2
    /\ uploadsLeft = 0
    /\ Stitched(runs[2])
    /\ runs[1].stitched = 1
    /\ runs[2].stitched = 1
    /\ stitchCount = 1

(* C22: stages run in order.  No onPredict call is issued by a run that has   *)
(* not finished stitching its whole dataset, and the text of every call is    *)
(* the trimmed, fully stitched text of its record: for a genuine record of a  *)
(* delimited-text source the original text followed by every fragment up to   *)
(* the next genuine record, for any other record its own text.                *)

\* the text of record j of the stitched dataset of run r, from the loaded rows
FullText(r, j) ==
    LET genuine == Positions(r.rawData, LAMBDA n : IsGenuine(r.rawData[n]))
        m == Cardinality({x \in 1..j : IsGenuine(r.cleanData[x])})
    IN  IF IsGenuine(r.cleanData[j])
        THEN ObjGet(r.rawData[genuine[m]], r.textCol).v
               \o (IF IsExcel(r.file) THEN ""
                   ELSE FragmentsAfter(r.rawData, genuine[m] + 1))
        ELSE ObjGet(r.cleanData[j], r.textCol).v

C22_PredictAfterStitching ==
    \A k \in RunIds :
        LET r == runs[k]
        IN  /\ ~Stitched(r) => r.calls = <<>>
            /\ \A n \in 1..Len(r.calls) :
                   /\ r.calls[n].i \in 1..Len(r.cleanData)
                   /\ r.calls[n].text = Trim(FullText(r, r.calls[n].i))

\* the call for a record that was followed by two fragments, both with a cell
C22_Witness ==
    \E k \in RunIds :
        /\ ~IsExcel(runs[k].file)
        /\ runs[k].stitched = 2
        /\ Len(runs[k].calls) = 1
        /\ runs[k].calls[1].text = "late meal\ncold\n  cold"

(* C23: every bulk run started by Start Prediction eventually ends with       *)
(* processing set back to false, whether it publishes, stops on a file-level  *)
(* error or is stopped by an exception, provided every onPredict call         *)
(* eventually resolves or rejects.                                            *)

C23_ProcessingEventuallyCleared ==
    /\ processing ~> ~processing
    /\ \A k \in 1..MaxRuns :
           (Len(runs) >= k) ~> (Len(runs) >= k /\ runs[k].pc = "done" /\ ~processing)

\* a run stopped by a text cell that is not a string and a run without text
\* column have both ended, and processing is false
C23_Witness ==
    /\ Len(runs) = 2
    /\ runs[1].end = "aborted"
    /\ runs[2].end = "nocolumn"
    /\ ~processing

(* C24: whenever results is non-null it was produced by a run over the        *)
(* currently selected file: the rows shown are the rows published by a run    *)
(* whose file is the selected one, and every call of onUploadComplete was     *)
(* made by a run whose file was still the selected one.                       *)

C24_ResultsOfSelectedFile ==
    ~results.isNull =>
        \E k \in RunIds :
            /\ runs[k].end = "published"
            /\ runs[k].file = file
            /\ results.rows = runs[k].processedResults

(* C26: onUploadComplete is invoked exactly once for each bulk run that       *)
(* reaches completion and never otherwise: every step that invokes it         *)
(* invokes it once, is the step in which a run ends published with a row      *)
(* for every record, and passes the rows that the same step stores in         *)
(* results and that App stores in bulkResults; after every step the number    *)
(* of invocations is the number of                                           *)
(* published runs, so no Start Prediction click leads to two of them.         *)

C26_CompletedOncePerRun ==
    [][/\ Len(completed') = Cardinality({k \in 1..Len(runs') : runs'[k].end = "published"})
       /\ completed' # completed =>
              /\ Len(completed') = Len(completed) + 1
              /\ SubSeq(completed', 1, Len(completed)) = completed
              /\ results' = Rows(completed'[Len(completed')])
              /\ bulkResults' = completed'[Len(completed')]
              /\ \E k \in RunIds :
                     /\ runs[k].pc # "done"
                     /\ runs'[k].end = "published"
                     /\ runs'[k].processedResults = completed'[Len(completed')]
                     /\ Len(runs'[k].processedResults) = Len(runs'[k].cleanData)]_vars

\* two runs have published, one had two records: two invocations in all
C26_Witness ==
    /\ Len(runs) = 2
    /\ runs[1].end = "published"
    /\ runs[2].end = "published"
    /\ Len(completed) = 2
    /\ Len(completed[1]) = 2

(* C30, as claimed.  When an onPredict call resolves with an empty            *)
(* prediction list, or with a top entry whose label is empty, the record is   *)
(* written with Predicted_Subcategory = "Unknown" and                         *)
(* Subcategory_Confidence = "0%".                                             *)

\* the answer has no prediction, or a first prediction without label
NoLabel(resp) ==
    resp.ok /\ (resp.subPredictions = <<>> \/ resp.subPredictions[1].label = "")

ConfidenceOf(row) == ParseFloat(Replace(ObjGet(row, "Subcategory_Confidence").v, "%", "")).hundredths

C29_ConfidenceBuckets ==
    (probe.applied /\ Len(probe.results) > 0) =>
        LET rs == probe.results
            with == {n \in 1..Len(rs) : Truthy(ObjGet(rs[n], "Subcategory_Confidence"))}
            count(name) == (CHOOSE b \in {probe.buckets[x] : x \in 1..3} : b.name = name).count
        IN  /\ count("Low (<70%)") = Cardinality({n \in with : ConfidenceOf(rs[n]) < 7000})
            /\ count("Medium (70-90%)") =
                   Cardinality({n \in with : ConfidenceOf(rs[n]) >= 7000
                                             /\ ConfidenceOf(rs[n]) <= 9000})
            /\ count("High (>90%)") = Cardinality({n \in with : ConfidenceOf(rs[n]) > 9000})
            /\ count("Low (<70%)") + count("Medium (70-90%)") + count("High (>90%)")
                 = Cardinality(with)


(* C25: while modelLoaded is false no prediction request is sent: neither the *)
(* single-comment Analyze nor a bulk run issues a call to the backend in a    *)
(* step taken from a state where the model is reported unavailable.           *)

AnalyzeRequestSent == isAnalyzing' /\ ~isAnalyzing

BulkRequestSent ==
    \E k \in 1..Len(runs') :
        Len(runs'[k].calls) > (IF k <= Len(runs) THEN Len(runs[k].calls) ELSE 0)

C25_NoRequestWhileModelUnavailable ==
    [][(AnalyzeRequestSent \/ BulkRequestSent) => modelLoaded]_vars

(* C27: once every overlapping health check has finished, apiOnline and       *)
(* modelLoaded are the values of the most recently started check, whatever    *)
(* the order in which the answers arrived.                                    *)

AllChecksDone == \A n \in 1..Len(checks) : checks[n].pc = "done"

ShownFor(health) ==
    IF health.status = "healthy" THEN <<TRUE, IsLoaded(health)>> ELSE <<FALSE, FALSE>>

C27_LastStartedCheckWins ==
    (Len(checks) > 1 /\ AllChecksDone)
        => <<apiOnline, modelLoaded>> = ShownFor(checks[Len(checks)].health)

(* C28: in every reachable state modelLoaded implies apiOnline, for any       *)
(* interleaving of health checks and any answers.                             *)

C28_LoadedImpliesOnline == modelLoaded => apiOnline

\* two overlapping checks have finished, the first saying offline, and the
\* model is shown as loaded
C28_Witness ==
    /\ Len(checks) = 2
    /\ AllChecksDone
    /\ checks[1].health.status = "offline"
    /\ modelLoaded
    /\ apiOnline

=============================================================================
